---- MODULE Spec2Model ----
(***************************************************************************)
(* Asynchronous ingestion (upload) jobs of memlane.                        *)
(*                                                                         *)
(* Server side: MemoryHandler.UploadMemoryFile creates a job record in the *)
(* UploadJobService registry, starts the goroutine processUploadJob and    *)
(* answers 202; processUploadJob walks the parsed sections in order and    *)
(* records every created memory in the job; GetUploadJobStatus serves      *)
(* status polls.  Client side: ImportModal starts a polling interval when  *)
(* the 202 response arrives and clears it on a terminal status, on a       *)
(* failed poll and when the modal closes.                                  *)
(*                                                                         *)
(* UploadJobService itself (CreateJob, UpdateJobStatus, AddMemoryToJob,    *)
(* GetJobStatus) is not among the sources; its four operations are written *)
(* from spec.md sections 3, 4.6 and 6.                                     *)
(***************************************************************************)
EXTENDS Integers, Sequences, FiniteSets, Bags, TLC

\* Bounds of the model.
MaxJobs == 1
MaxSections == 2
MaxInFlight == 2

JobIds == 1..MaxJobs

\* len(sections) of a file ParseFile accepts: one section for a .txt file,
\* one or more for a .md file, never none.
ParsedSectionCounts == 1..MaxSections

JobStatusPending == "pending"
JobStatusProcessing == "processing"
JobStatusCompleted == "completed"
JobStatusFailed == "failed"
JobStatuses ==
    {JobStatusPending, JobStatusProcessing, JobStatusCompleted, JobStatusFailed}
Terminal == {JobStatusCompleted, JobStatusFailed}

VARIABLES
    jobs,                \* UploadJobService registry: job id -> job record
    history,             \* per job: every value its record has held (history)
    wpc,                 \* per job: position of its processUploadJob goroutine
    wi,                  \* per job: sections consumed by the range loop
    attempts,            \* per job: the memoryService.Create calls made (history)
    resp,                \* per job: what became of the POST /uploads response
    upload,              \* per job: where its POST /uploads exchange stands
    intervals,           \* jobs for which a setInterval timer is live
    pollingIntervalRef,  \* ImportModal pollingIntervalRef.current (0 = null)
    isOpen,              \* ImportModal isOpen prop
    jobStatus,           \* ImportModal jobStatus state (last poll response)
    polls                \* status requests and their answers in flight (a bag)

vars == <<jobs, history, wpc, wi, attempts, resp, upload, intervals,
          pollingIntervalRef, isOpen, jobStatus, polls>>

NoStatus == [job_id |-> 0]

(***************************************************************************)
(* UploadJobService, from spec.md.                                         *)
(***************************************************************************)

\* The memory memoryService.Create returns for section k of job j's file.
Memory(j, k) == [job |-> j, section |-> k]

NewJob(id, totalItems) ==
    [id |-> id, status |-> JobStatusPending, totalItems |-> totalItems,
     processedItems |-> 0, results |-> <<>>, errorMessage |-> ""]

\* Job ids are fresh.  The model names a job after the upload request that
\* creates it, and numbers the upload requests in the order they are sent.
NextJobId == Cardinality({j \in DOMAIN upload : upload[j] # "none"}) + 1

CreateJob(reg, id, totalItems) == reg @@ (id :> NewJob(id, totalItems))

UpdateJobStatus(reg, id, status) ==
    IF id \in DOMAIN reg THEN [reg EXCEPT ![id].status = status] ELSE reg

AddMemoryToJob(reg, id, memory) ==
    IF id \in DOMAIN reg
    THEN [reg EXCEPT ![id].results = Append(@, memory),
                     ![id].processedItems = @ + 1]
    ELSE reg

\* processedItems / totalItems on the 0-100 scale the client prints with a
\* percent sign, 0 for totalItems = 0.  The value is held as the fraction
\* num / den, no rounding applied.
Progress(processedItems, totalItems) ==
    IF totalItems = 0
    THEN [num |-> 0, den |-> 1]
    ELSE [num |-> processedItems * 100, den |-> totalItems]

Snapshot(job) ==
    [job_id |-> job.id, status |-> job.status,
     progress |-> Progress(job.processedItems, job.totalItems),
     processed_items |-> job.processedItems, total_items |-> job.totalItems,
     memories |-> job.results, error_message |-> job.errorMessage]

GetJobStatus(reg, id) == Snapshot(reg[id])

\* The record values job id has held once the registry becomes reg.
Recorded(reg, id) ==
    IF id \in DOMAIN reg THEN history[id] \cup {reg[id]} ELSE history[id]

\* len(sections) of the goroutine of job j: CreateJob stored it as totalItems.
NumSections(j) == jobs[j].totalItems

(***************************************************************************)
(* MemoryHandler.UploadMemoryFile                                          *)
(***************************************************************************)

\* ImportModal.handleFileUpload up to its await: the modal shows the drop
\* zone while it is open, and startUploadJob sends the POST /uploads request.
startUploadJob(j) ==
    /\ isOpen
    /\ j = NextJobId
    /\ upload' = [upload EXCEPT ![j] = "sent"]
    /\ UNCHANGED <<jobs, history, wpc, wi, attempts, resp, intervals,
                   pollingIntervalRef, isOpen, jobStatus, polls>>

\* Steps 5 and 6, once the request has arrived: CreateJob, then
\* `go processUploadJob`, for the n sections ParseFile returned (a file
\* without content is rejected in step 4, so a job has at least one section).
UploadCreate(j, n) ==
    /\ upload[j] = "sent"
    /\ jobs' = CreateJob(jobs, j, n)
    /\ history' = [history EXCEPT ![j] = {NewJob(j, n)}]
    /\ wpc' = [wpc EXCEPT ![j] = "start"]
    /\ resp' = [resp EXCEPT ![j] = IF @ = "cancelled" THEN @ ELSE "handling"]
    /\ upload' = [upload EXCEPT ![j] = "handling"]
    /\ UNCHANGED <<wi, attempts, intervals, pollingIntervalRef, isOpen, jobStatus, polls>>

\* job.Status as step 7 reads it.  CreateJob is not among the sources, and
\* whether the job it returns is a copy of the new record or the record of
\* the registry itself is not known: the read yields the status at creation
\* in the first case, and in the second the one the record holds now, the
\* goroutine started in step 6 writing it meanwhile.
ReadJobStatus(j) == {JobStatusPending, jobs[j].status}

\* A status request of job j that the server has not answered yet, and the
\* answer to one on its way to the client.
PollRequest(j) == [job |-> j, answer |-> NoStatus]
PollAnswer(j, status) == [job |-> j, answer |-> status]

\* The requests and answers of job j in flight.
PollsInFlight(j) == {p \in BagToSet(polls) : p.job = j}

\* Step 7: the handler writes the 202 response with the status it reads;
\* the response is then on its way to the client.
UploadRespond(j) ==
    /\ upload[j] = "handling"
    /\ \E s \in ReadJobStatus(j) : upload' = [upload EXCEPT ![j] = s]
    /\ UNCHANGED <<jobs, history, wpc, wi, attempts, resp, intervals,
                   pollingIntervalRef, isOpen, jobStatus, polls>>

\* The 202 response arrives: handleFileUpload after its await starts the
\* polling interval, overwriting pollingIntervalRef.current, and polls at
\* once.
UploadDeliver(j) ==
    /\ resp[j] = "handling"
    /\ upload[j] \in JobStatuses
    /\ resp' = [resp EXCEPT ![j] = upload[j]]
    /\ upload' = [upload EXCEPT ![j] = "closed"]
    /\ intervals' = intervals \cup {j}
    /\ pollingIntervalRef' = j
    /\ polls' = polls (+) SetToBag({PollRequest(j)})
    /\ UNCHANGED <<jobs, history, wpc, wi, attempts, isOpen, jobStatus>>

\* The upload request is cancelled or its connection lost before the response
\* arrives: handleFileUpload's catch branch, no interval is started.  The
\* request may still reach the handler, and the handler and the goroutine
\* run on; a response already written is dropped.
ClientCancelUpload(j) ==
    /\ upload[j] # "none"
    /\ resp[j] \in {"none", "handling"}
    /\ resp' = [resp EXCEPT ![j] = "cancelled"]
    /\ upload' = [upload EXCEPT ![j] = IF @ \in JobStatuses THEN "closed" ELSE @]
    /\ UNCHANGED <<jobs, history, wpc, wi, attempts, intervals,
                   pollingIntervalRef, isOpen, jobStatus, polls>>

(***************************************************************************)
(* MemoryHandler.processUploadJob, one action per access to the job.       *)
(***************************************************************************)

\* Mutant: the goroutine enters the loop without marking the job processing.
WorkerStartSkipsProcessing(j) ==
    /\ wpc[j] = "start"
    /\ wpc' = [wpc EXCEPT ![j] = "loop"]
    /\ UNCHANGED <<jobs, history, wi, attempts, resp, upload, intervals,
                   pollingIntervalRef, isOpen, jobStatus, polls>>

\* Mutant: the first status update passes the wrong constant.
WorkerStartMarksCompleted(j) ==
    /\ wpc[j] = "start"
    /\ jobs' = UpdateJobStatus(jobs, j, JobStatusCompleted)
    /\ history' = [history EXCEPT ![j] = Recorded(jobs', j)]
    /\ wpc' = [wpc EXCEPT ![j] = "loop"]
    /\ UNCHANGED <<wi, attempts, resp, upload, intervals, pollingIntervalRef, isOpen,
                   jobStatus, polls>>

\* Mutant: the goroutine runs under the upload request's context and does
\* not start once that request has been cancelled.
WorkerStartBoundToRequest(j) ==
    /\ wpc[j] = "start"
    /\ resp[j] # "cancelled"
    /\ jobs' = UpdateJobStatus(jobs, j, JobStatusProcessing)
    /\ history' = [history EXCEPT ![j] = Recorded(jobs', j)]
    /\ wpc' = [wpc EXCEPT ![j] = "loop"]
    /\ UNCHANGED <<wi, attempts, resp, upload, intervals, pollingIntervalRef, isOpen,
                   jobStatus, polls>>

WorkerStart(j) ==
    /\ wpc[j] = "start"
    /\ jobs' = UpdateJobStatus(jobs, j, JobStatusProcessing)
    /\ history' = [history EXCEPT ![j] = Recorded(jobs', j)]
    /\ wpc' = [wpc EXCEPT ![j] = "loop"]
    /\ UNCHANGED <<wi, attempts, resp, upload, intervals, pollingIntervalRef, isOpen,
                   jobStatus, polls>>

\* Mutant: the loop walks the sections from the last to the first.
WorkerCreateOkReversed(j) ==
    /\ wpc[j] = "loop"
    /\ wi[j] < NumSections(j)
    /\ LET k == NumSections(j) - wi[j] IN
        /\ attempts' = [attempts EXCEPT ![j] = Append(@, [section |-> k, ok |-> TRUE])]
        /\ wi' = [wi EXCEPT ![j] = wi[j] + 1]
    /\ wpc' = [wpc EXCEPT ![j] = "add"]
    /\ UNCHANGED <<jobs, history, resp, upload, intervals, pollingIntervalRef,
                   isOpen, jobStatus, polls>>

\* One iteration whose memoryService.Create succeeds: the call has returned
\* the memory of the section, which is yet to be added to the job.
WorkerCreateOk(j) ==
    /\ wpc[j] = "loop"
    /\ wi[j] < NumSections(j)
    /\ LET k == wi[j] + 1 IN
        /\ attempts' = [attempts EXCEPT ![j] = Append(@, [section |-> k, ok |-> TRUE])]
        /\ wi' = [wi EXCEPT ![j] = k]
    /\ wpc' = [wpc EXCEPT ![j] = "add"]
    /\ UNCHANGED <<jobs, history, resp, upload, intervals, pollingIntervalRef,
                   isOpen, jobStatus, polls>>

\* The memory the last memoryService.Create of job j returned.
CreatedMemory(j) == Memory(j, attempts[j][Len(attempts[j])].section)

\* Mutant: the created memory is added to the job twice.
WorkerAddMemoryTwice(j) ==
    /\ wpc[j] = "add"
    /\ jobs' = AddMemoryToJob(AddMemoryToJob(jobs, j, CreatedMemory(j)), j, CreatedMemory(j))
    /\ history' = [history EXCEPT ![j] = Recorded(jobs', j)]
    /\ wpc' = [wpc EXCEPT ![j] = "loop"]
    /\ UNCHANGED <<wi, attempts, resp, upload, intervals, pollingIntervalRef,
                   isOpen, jobStatus, polls>>

\* The same iteration after memoryService.Create: AddMemoryToJob.
WorkerAddMemory(j) ==
    /\ wpc[j] = "add"
    /\ jobs' = AddMemoryToJob(jobs, j, CreatedMemory(j))
    /\ history' = [history EXCEPT ![j] = Recorded(jobs', j)]
    /\ wpc' = [wpc EXCEPT ![j] = "loop"]
    /\ UNCHANGED <<wi, attempts, resp, upload, intervals, pollingIntervalRef,
                   isOpen, jobStatus, polls>>

\* Mutant: a failed creation returns from the goroutine instead of continuing.
WorkerCreateFailAborts(j) ==
    /\ wpc[j] = "loop"
    /\ wi[j] < NumSections(j)
    /\ LET k == wi[j] + 1 IN
        /\ attempts' = [attempts EXCEPT ![j] = Append(@, [section |-> k, ok |-> FALSE])]
        /\ wi' = [wi EXCEPT ![j] = k]
    /\ wpc' = [wpc EXCEPT ![j] = "done"]
    /\ UNCHANGED <<jobs, history, resp, upload, intervals, pollingIntervalRef,
                   isOpen, jobStatus, polls>>

\* One iteration whose memoryService.Create fails: log and continue.
WorkerCreateFail(j) ==
    /\ wpc[j] = "loop"
    /\ wi[j] < NumSections(j)
    /\ LET k == wi[j] + 1 IN
        /\ attempts' = [attempts EXCEPT ![j] = Append(@, [section |-> k, ok |-> FALSE])]
        /\ wi' = [wi EXCEPT ![j] = k]
    /\ UNCHANGED <<jobs, history, wpc, resp, upload, intervals, pollingIntervalRef,
                   isOpen, jobStatus, polls>>

\* Mutant: the loop stops one section early.
WorkerFinishEarly(j) ==
    /\ wpc[j] = "loop"
    /\ wi[j] >= NumSections(j) - 1
    /\ jobs' = UpdateJobStatus(jobs, j, JobStatusCompleted)
    /\ history' = [history EXCEPT ![j] = Recorded(jobs', j)]
    /\ wpc' = [wpc EXCEPT ![j] = "done"]
    /\ UNCHANGED <<wi, attempts, resp, upload, intervals, pollingIntervalRef, isOpen,
                   jobStatus, polls>>

\* The loop is exhausted: mark the job completed.
WorkerFinish(j) ==
    /\ wpc[j] = "loop"
    /\ wi[j] = NumSections(j)
    /\ jobs' = UpdateJobStatus(jobs, j, JobStatusCompleted)
    /\ history' = [history EXCEPT ![j] = Recorded(jobs', j)]
    /\ wpc' = [wpc EXCEPT ![j] = "done"]
    /\ UNCHANGED <<wi, attempts, resp, upload, intervals, pollingIntervalRef, isOpen,
                   jobStatus, polls>>

Worker(j) ==
    \/ WorkerStart(j)
    \/ WorkerCreateOk(j)
    \/ WorkerAddMemory(j)
    \/ WorkerCreateFail(j)
    \/ WorkerFinish(j)

(***************************************************************************)
(* Status polls: ImportModal.pollJobStatus calling GetUploadJobStatus.     *)
(* pollJobStatus sends its request and awaits the answer: other events     *)
(* take place in between, further requests are sent meanwhile and the      *)
(* answers are handled in the order they arrive, whatever has become of    *)
(* the interval.                                                           *)
(***************************************************************************)

\* if (pollingIntervalRef.current) { clearInterval(...); ... = null }
ClearedIntervals == intervals \ {pollingIntervalRef}

\* A tick of job j's interval: pollJobStatus sends a status request.  A
\* tick is followed while fewer than MaxInFlight requests are in flight.
PollSend(j) ==
    /\ j \in intervals
    /\ BagCardinality(polls) < MaxInFlight
    /\ polls' = polls (+) SetToBag({PollRequest(j)})
    /\ UNCHANGED <<jobs, history, wpc, wi, attempts, resp, upload, intervals,
                   pollingIntervalRef, isOpen, jobStatus>>

\* The handler answers a status request with the job's snapshot.
GetUploadJobStatus(j) ==
    /\ BagIn(PollRequest(j), polls)
    /\ j \in DOMAIN jobs
    /\ LET status == GetJobStatus(jobs, j) IN
        polls' = (polls (-) SetToBag({PollRequest(j)}))
                    (+) SetToBag({PollAnswer(j, status)})
    /\ UNCHANGED <<jobs, history, wpc, wi, attempts, resp, upload, intervals,
                   pollingIntervalRef, isOpen, jobStatus>>

\* An answer arrives: pollJobStatus after its await.  On a terminal status
\* the client clears the interval the ref holds.
Poll(j) ==
    \E p \in PollsInFlight(j) :
        /\ p.answer # NoStatus
        /\ polls' = polls (-) SetToBag({p})
        /\ jobStatus' = p.answer
        /\ IF p.answer.status \in Terminal
           THEN /\ intervals' = ClearedIntervals
                /\ pollingIntervalRef' = 0
           ELSE UNCHANGED <<intervals, pollingIntervalRef>>
        /\ UNCHANGED <<jobs, history, wpc, wi, attempts, resp, upload, isOpen>>

\* A request or its answer is lost: the catch branch clears the interval
\* the ref holds.
PollFail(j) ==
    \E p \in PollsInFlight(j) :
        /\ polls' = polls (-) SetToBag({p})
        /\ intervals' = ClearedIntervals
        /\ pollingIntervalRef' = 0
        /\ UNCHANGED <<jobs, history, wpc, wi, attempts, resp, upload, isOpen, jobStatus>>

\* isOpen becomes false: the cleanup effect clears the interval and the state.
ClientClose ==
    /\ isOpen
    /\ isOpen' = FALSE
    /\ intervals' = ClearedIntervals
    /\ pollingIntervalRef' = 0
    /\ jobStatus' = NoStatus
    /\ UNCHANGED <<jobs, history, wpc, wi, attempts, resp, upload, polls>>

ClientOpen ==
    /\ ~isOpen
    /\ isOpen' = TRUE
    /\ UNCHANGED <<jobs, history, wpc, wi, attempts, resp, upload, intervals,
                   pollingIntervalRef, jobStatus, polls>>

(***************************************************************************)
(* Hybrid search: RAGService.Search, reciprocalRankFusion and the parallel *)
(* VectorRepository.SearchByUser of docs/rag-benchmark-guide.md.           *)
(*                                                                         *)
(* Numbers.  A vector weight is held in tenths (7 is 0.7), a similarity    *)
(* threshold in hundredths (101 is 1.01) and a fused score in units of     *)
(* 1 / (100 * ScoreUnit), where ScoreUnit is the product of the            *)
(* denominators k + rank: every score of the model is an exact integer.    *)
(*                                                                         *)
(* The source shows Search only in part: the launch of the two             *)
(* sub-searches, what happens when one of them fails, the keyword search   *)
(* and the cut to the limit are elided there and written from spec.md      *)
(* section 4.5.  A result list holds a document at most once, each index   *)
(* keeping one entry per (content type, content id).                       *)
(***************************************************************************)

\* Bound of the model: the documents the two indexes hold.
MaxDocs == 2

Docs == 1..MaxDocs
ContentTypes == {"memory", "todo"}
ContentTypeOf(doc) == IF doc % 2 = 1 THEN "memory" ELSE "todo"

rrfK == 60
DefaultLimit == 10
DefaultVectorWeight == 7
DefaultMinSimilarity == 0

\* Request values: weights below 0, at 0, inside, at 1 and above 1;
\* thresholds below 0, at 0, 0.01 and 1.01; limit 0 is an unset limit.
VectorWeights == {-5, 0, 3, 5, 7, 10, 15}
MinSimilarities == {-1, 0, 1, 101}
Limits == 0..(MaxDocs - 1)

Range(seq) == {seq[i] : i \in DOMAIN seq}
Injective(seq) == \A a, b \in DOMAIN seq : seq[a] = seq[b] => a = b
Orderings(S) == {seq \in [1..Cardinality(S) -> S] : Injective(seq)}

\* The ranked lists a sub-search can return.
RankedLists ==
    UNION {{seq \in [1..n -> Docs] : Injective(seq)} : n \in 0..MaxDocs}

RECURSIVE RankProduct(_)
RankProduct(n) == IF n = 0 THEN 1 ELSE (rrfK + n) * RankProduct(n - 1)
ScoreUnit == RankProduct(MaxDocs)

\* weight * (1.0 / (k + float64(i+1))), rank being i+1.
rrf(weight, rank) == (weight * 10 * ScoreUnit) \div (rrfK + rank)

keywordWeight(vectorWeight) == 10 - vectorWeight

\* What the loop over one result list adds to scoreMap[doc].
RECURSIVE RankSum(_, _, _, _)
RankSum(results, doc, weight, i) ==
    IF i > Len(results) THEN 0
    ELSE (IF results[i] = doc THEN rrf(weight, i) ELSE 0)
         + RankSum(results, doc, weight, i + 1)

scoreMapSwapped(vectorResults, keywordResults, vectorWeight, doc) ==
    RankSum(vectorResults, doc, keywordWeight(vectorWeight), 1)
    + RankSum(keywordResults, doc, vectorWeight, 1)

scoreMap(vectorResults, keywordResults, vectorWeight, doc) ==
    RankSum(vectorResults, doc, vectorWeight, 1)
    + RankSum(keywordResults, doc, keywordWeight(vectorWeight), 1)

MatchTypeLastList(vectorResults, keywordResults, doc) ==
    IF doc \in Range(keywordResults) THEN "keyword" ELSE "vector"

\* The tag docMap[doc] holds after both loops: "vector" from the first loop,
\* turned "hybrid" by the second when the key is already there, "keyword"
\* when the second loop is the first to see it.
MatchType(vectorResults, keywordResults, doc) ==
    IF doc \in Range(vectorResults)
    THEN IF doc \in Range(keywordResults) THEN "hybrid" ELSE "vector"
    ELSE IF Cardinality({i \in DOMAIN keywordResults :
                            keywordResults[i] = doc}) > 1
         THEN "hybrid" ELSE "keyword"

docMap(vectorResults, keywordResults, vectorWeight) ==
    [doc \in Range(vectorResults) \cup Range(keywordResults) |->
        [doc |-> doc,
         score |-> scoreMap(vectorResults, keywordResults, vectorWeight, doc),
         matchType |-> MatchType(vectorResults, keywordResults, doc)]]

\* score >= minSimilarity
MeetsMinSimilarity(score, minSimilarity) == score >= minSimilarity * ScoreUnit

ScoreAscending(results) ==
    \A a, b \in DOMAIN results :
        a < b => results[a].score <= results[b].score

\* What sort.Slice with the comparator Score > Score guarantees.
ScoreDescending(results) ==
    \A a, b \in DOMAIN results :
        a < b => results[a].score >= results[b].score

\* The lists reciprocalRankFusion can return: the kept entries are collected
\* by ranging over a Go map (any order) and sorted with sort.Slice (not
\* stable), so equal scores come out in any order.
reciprocalRankFusion(vectorResults, keywordResults, vectorWeight, minSimilarity) ==
    LET entries == docMap(vectorResults, keywordResults, vectorWeight)
        combined == {entries[doc] : doc \in
                        {x \in DOMAIN entries :
                            MeetsMinSimilarity(entries[x].score,
                                               minSimilarity)}}
    IN  {seq \in Orderings(combined) : ScoreDescending(seq)}

\* results[:limit] when len(results) > limit.
Truncate(results, limit) ==
    IF Len(results) > limit THEN SubSeq(results, 1, limit) ELSE results

\* r.Search for one content type: the documents of that type the vector
\* index returns, best similarity first (the most recent insertion first
\* among equals), at most limit of them.
TypeSearch(sims, contentType, limit) ==
    LET found == {[doc |-> doc, score |-> sims[doc]] :
                    doc \in {x \in Docs : /\ ContentTypeOf(x) = contentType
                                          /\ sims[x] > 0}}
        ranked == CHOOSE seq \in Orderings(found) :
                    \A a, b \in DOMAIN seq :
                        a < b => \/ seq[a].score > seq[b].score
                                 \/ /\ seq[a].score = seq[b].score
                                    /\ seq[a].doc > seq[b].doc
    IN  Truncate(ranked, limit)

DocsOf(results) == [i \in DOMAIN results |-> results[i].doc]

Pending == [status |-> "pending", hits |-> << >>]
Failed == [status |-> "failed", hits |-> << >>]
Succeeded(hits) == [status |-> "ok", hits |-> hits]

\* Search fails only when both sub-searches failed.
BothFailed(vector, keyword) ==
    vector.status = "failed" /\ keyword.status = "failed"

\* A failed sub-search contributes an empty list.
HitsOf(search) == IF search.status = "ok" THEN search.hits ELSE << >>

NoResponse == [kind |-> "none", results |-> << >>]

VARIABLES
    searchRequest,   \* the SearchRequest as the handler bound it (history)
    searchReq,       \* req as Search holds it: defaults are written into it
    searchPc,        \* position of Search: received, searching, done
    similarity,      \* vector index: document -> similarity level, 0 = no hit
    keywordIndex,    \* keyword index: the ranked hits for the query
    typesLeft,       \* SearchByUser: content types whose goroutine runs
    allResults,      \* SearchByUser: allResults, in completion order
    firstError,      \* SearchByUser: firstError != nil
    vectorSearch,    \* the vector sub-search: status and ranked documents
    keywordSearch,   \* the keyword sub-search: status and ranked documents
    searchResponse   \* what Search returned

searchVars == <<searchRequest, searchReq, searchPc, similarity, keywordIndex,
                typesLeft, allResults, firstError, vectorSearch,
                keywordSearch, searchResponse>>

\* The defaults Search writes into req before anything else.
ApplyDefaults(request) ==
    [limit |-> IF request.limit <= 0 THEN DefaultLimit ELSE request.limit,
     vectorWeight |-> IF request.vectorWeight <= 0
                      THEN DefaultVectorWeight ELSE request.vectorWeight,
     minSimilarity |-> IF request.minSimilarity < 0
                       THEN DefaultMinSimilarity ELSE request.minSimilarity]

SearchBegin ==
    /\ searchPc = "received"
    /\ searchReq' = ApplyDefaults(searchReq)
    /\ searchPc' = "searching"
    /\ UNCHANGED <<searchRequest, similarity, keywordIndex, typesLeft,
                   allResults, firstError, vectorSearch, keywordSearch,
                   searchResponse>>

\* One goroutine of SearchByUser returns its results: appended under the lock.
TypeSearchDone(contentType) ==
    /\ searchPc = "searching"
    /\ contentType \in typesLeft
    /\ typesLeft' = typesLeft \ {contentType}
    /\ allResults' =
         allResults \o TypeSearch(similarity, contentType, searchReq.limit)
    /\ UNCHANGED <<searchRequest, searchReq, searchPc, similarity,
                   keywordIndex, firstError, vectorSearch, keywordSearch,
                   searchResponse>>

\* One goroutine of SearchByUser gets an error: firstError is set.
TypeSearchFail(contentType) ==
    /\ searchPc = "searching"
    /\ contentType \in typesLeft
    /\ typesLeft' = typesLeft \ {contentType}
    /\ firstError' = TRUE
    /\ UNCHANGED <<searchRequest, searchReq, searchPc, similarity,
                   keywordIndex, allResults, vectorSearch, keywordSearch,
                   searchResponse>>

\* SearchByUser after wg.Wait(): the error of any goroutine fails the vector
\* search; otherwise allResults is sorted by score (sort.Slice) and cut.
VectorJoin ==
    /\ searchPc = "searching"
    /\ typesLeft = {}
    /\ vectorSearch.status = "pending"
    /\ IF firstError
       THEN vectorSearch' = Failed
       ELSE \E sorted \in {seq \in Orderings(Range(allResults)) :
                              ScoreDescending(seq)} :
                vectorSearch' =
                    Succeeded(DocsOf(Truncate(sorted, searchReq.limit)))
    /\ UNCHANGED <<searchRequest, searchReq, searchPc, similarity,
                   keywordIndex, typesLeft, allResults, firstError,
                   keywordSearch, searchResponse>>

KeywordDone ==
    /\ searchPc = "searching"
    /\ keywordSearch.status = "pending"
    /\ keywordSearch' = Succeeded(Truncate(keywordIndex, searchReq.limit))
    /\ UNCHANGED <<searchRequest, searchReq, searchPc, similarity,
                   keywordIndex, typesLeft, allResults, firstError,
                   vectorSearch, searchResponse>>

KeywordFail ==
    /\ searchPc = "searching"
    /\ keywordSearch.status = "pending"
    /\ keywordSearch' = Failed
    /\ UNCHANGED <<searchRequest, searchReq, searchPc, similarity,
                   keywordIndex, typesLeft, allResults, firstError,
                   vectorSearch, searchResponse>>

\* Both sub-searches are back and one at least succeeded: the lists are
\* fused with the weight and the threshold of req and cut to the limit.
Fuse ==
    /\ searchPc = "searching"
    /\ vectorSearch.status # "pending"
    /\ keywordSearch.status # "pending"
    /\ ~BothFailed(vectorSearch, keywordSearch)
    /\ \E combined \in reciprocalRankFusion(HitsOf(vectorSearch),
                                            HitsOf(keywordSearch),
                                            searchReq.vectorWeight,
                                            searchReq.minSimilarity) :
            searchResponse' =
                [kind |-> "ok", results |-> Truncate(combined, searchReq.limit)]
    /\ searchPc' = "done"
    /\ UNCHANGED <<searchRequest, searchReq, similarity, keywordIndex,
                   typesLeft, allResults, firstError, vectorSearch,
                   keywordSearch>>

SearchFail ==
    /\ searchPc = "searching"
    /\ vectorSearch.status # "pending"
    /\ keywordSearch.status # "pending"
    /\ BothFailed(vectorSearch, keywordSearch)
    /\ searchResponse' = [kind |-> "error", results |-> << >>]
    /\ searchPc' = "done"
    /\ UNCHANGED <<searchRequest, searchReq, similarity, keywordIndex,
                   typesLeft, allResults, firstError, vectorSearch,
                   keywordSearch>>

SearchIdle ==
    /\ searchRequest = [limit |-> 0, vectorWeight |-> 0, minSimilarity |-> 0]
    /\ searchReq = searchRequest
    /\ searchPc = "idle"
    /\ similarity = [doc \in Docs |-> 0]
    /\ keywordIndex = << >>
    /\ typesLeft = {}
    /\ allResults = << >>
    /\ firstError = FALSE
    /\ vectorSearch = Pending
    /\ keywordSearch = Pending
    /\ searchResponse = NoResponse

(***************************************************************************)
(* Batched embedding: EmbeddingService.EmbedBatch, and VectorRepository    *)
(* AddBatch with generateBatchEmbeddings.  Texts are counted, not held.    *)
(***************************************************************************)

\* Bound of the model: the texts of one call.
MaxTexts == 401

API_BATCH_SIZE == 200
EMBED_BATCH_SIZE == 200

VARIABLES
    embedPath,         \* the entry point: "EmbedBatch" or "AddBatch"
    embedTexts,        \* len(texts), len(docs)
    embedOffset,       \* the loop variable i
    embedPc,           \* idle, running, done, failed
    embedCallCount,    \* calls made to the embedding function or API
    embedLargestCall,  \* the most texts any one of those calls carried
    embedded           \* embeddings the calls have returned

embedVars == <<embedPath, embedTexts, embedOffset, embedPc, embedCallCount,
               embedLargestCall, embedded>>

Larger(a, b) == IF a > b THEN a ELSE b

\* end := i + size, cut to len(texts): the texts of the batch at offset i.
BatchLen(total, offset, size) ==
    IF offset + size > total THEN total - offset ELSE size

\* EmbedBatch, one turn of its loop: one CreateEmbeddings call for the batch.
EmbedBatchCall ==
    /\ embedPc = "running"
    /\ embedPath = "EmbedBatch"
    /\ embedOffset < embedTexts
    /\ LET batch == BatchLen(embedTexts, embedOffset, API_BATCH_SIZE) IN
        /\ embedCallCount' = embedCallCount + 1
        /\ embedLargestCall' = Larger(embedLargestCall, batch)
        /\ embedded' = embedded + batch
        /\ embedOffset' = embedOffset + API_BATCH_SIZE
    /\ UNCHANGED <<embedPath, embedTexts, embedPc>>

\* EmbedBatch, the CreateEmbeddings call fails: nil and the error.
EmbedBatchCallFail ==
    /\ embedPc = "running"
    /\ embedPath = "EmbedBatch"
    /\ embedOffset < embedTexts
    /\ LET batch == BatchLen(embedTexts, embedOffset, API_BATCH_SIZE) IN
        /\ embedCallCount' = embedCallCount + 1
        /\ embedLargestCall' = Larger(embedLargestCall, batch)
    /\ embedded' = 0
    /\ embedPc' = "failed"
    /\ UNCHANGED <<embedPath, embedTexts, embedOffset>>

\* AddBatch, one turn of its loop: generateBatchEmbeddings calls embeddingFn
\* once for every text of the batch.
AddBatchStep ==
    /\ embedPc = "running"
    /\ embedPath = "AddBatch"
    /\ embedOffset < embedTexts
    /\ LET batch == BatchLen(embedTexts, embedOffset, EMBED_BATCH_SIZE) IN
        /\ embedCallCount' = embedCallCount + batch
        /\ embedLargestCall' = Larger(embedLargestCall, 1)
        /\ embedded' = embedded + batch
        /\ embedOffset' = embedOffset + EMBED_BATCH_SIZE
    /\ UNCHANGED <<embedPath, embedTexts, embedPc>>

\* AddBatch, embeddingFn fails on a text of the batch, any of them:
\* generateBatchEmbeddings returns at that call with the error, AddBatch
\* with it.
AddBatchStepFail ==
    /\ embedPc = "running"
    /\ embedPath = "AddBatch"
    /\ embedOffset < embedTexts
    /\ LET batch == BatchLen(embedTexts, embedOffset, EMBED_BATCH_SIZE) IN
        \E failing \in 1..batch :
            /\ embedCallCount' = embedCallCount + failing
            /\ embedLargestCall' = Larger(embedLargestCall, 1)
    /\ embedPc' = "failed"
    /\ UNCHANGED <<embedPath, embedTexts, embedOffset, embedded>>

\* AddBatch after its loop: r.collection.AddDocuments fails, AddBatch
\* returns the error and no document is added.  AddBatch of no documents
\* returns before it.
AddDocumentsFail ==
    /\ embedPc = "running"
    /\ embedPath = "AddBatch"
    /\ embedTexts > 0
    /\ embedOffset >= embedTexts
    /\ embedPc' = "failed"
    /\ UNCHANGED <<embedPath, embedTexts, embedOffset, embedCallCount,
                   embedLargestCall, embedded>>

\* The loop is over (at once for no texts) and, in AddBatch, AddDocuments
\* has succeeded: the call returns.
EmbedReturn ==
    /\ embedPc = "running"
    /\ embedOffset >= embedTexts
    /\ embedPc' = "done"
    /\ UNCHANGED <<embedPath, embedTexts, embedOffset, embedCallCount,
                   embedLargestCall, embedded>>

EmbedIdle ==
    /\ embedPath = "EmbedBatch"
    /\ embedTexts = 0
    /\ embedOffset = 0
    /\ embedPc = "idle"
    /\ embedCallCount = 0
    /\ embedLargestCall = 0
    /\ embedded = 0

(***************************************************************************)
(* Truncation of long texts: the loop of EmbeddingService.EmbedBatch that  *)
(* cleans every text before it is embedded.  A text is its length.         *)
(***************************************************************************)

\* Bound of the model: the length of a text.
MaxTextLen == 16001

MaxEmbedChars == 8000

VARIABLES
    originalLen,      \* len(text) of the text the loop is at
    cleanedLen,       \* len(cleanedTexts[i]), 0 before the text is cleaned
    bucket,           \* the severity logged for the text, "" when none is
    truncationCount,  \* truncationCount
    cleanPc           \* idle, ready, cleaned

truncateVars == <<originalLen, cleanedLen, bucket, truncationCount, cleanPc>>

\* lossPercent := 100.0 * (float64(loss) / float64(originalLen)), compared
\* with a bound in percent: lossPercent < percent.
LossBelow(len, percent) == 100 * (len - MaxEmbedChars) < percent * len


\* The switch on lossPercent.
SeverityBucket(len) ==
    IF LossBelow(len, 10) THEN "minor"
    ELSE IF LossBelow(len, 25) THEN "moderate"
    ELSE IF LossBelow(len, 50) THEN "significant"
    ELSE "severe"

\* One turn of the loop: text[:8000] for a longer text, " " for an empty one.
CleanText ==
    /\ cleanPc = "ready"
    /\ IF originalLen > MaxEmbedChars
       THEN /\ cleanedLen' = MaxEmbedChars
            /\ truncationCount' = truncationCount + 1
            /\ bucket' = SeverityBucket(originalLen)
       ELSE /\ cleanedLen' = (IF originalLen = 0 THEN 1 ELSE originalLen)
            /\ UNCHANGED <<truncationCount, bucket>>
    /\ cleanPc' = "cleaned"
    /\ UNCHANGED originalLen

TruncateIdle ==
    /\ originalLen = 0
    /\ cleanedLen = 0
    /\ bucket = ""
    /\ truncationCount = 0
    /\ cleanPc = "idle"

(***************************************************************************)
(* chunkWithOverlap.  The text is its length; a chunk text[start:end] is   *)
(* the range [charStart, charEnd), its ordinal its place in the list       *)
(* less one.                                                               *)
(***************************************************************************)

\* Bound of the model: len(text), and the largest chunkSize and overlap.
MaxBody == 6

VARIABLES
    bodyLen,      \* len(text)
    chunkSize,    \* chunkSize
    overlap,      \* overlap
    chunkStart,   \* start
    chunks,       \* chunks, each as its range in the text
    chunkPc       \* idle, called, loop, done, panic

chunkVars == <<bodyLen, chunkSize, overlap, chunkStart, chunks, chunkPc>>

\* A loop that does not advance is followed for this many chunks.
ChunkCap == MaxBody + 1

ChunkStrideSkips == chunkSize + overlap + 1

\* start += (chunkSize - overlap)
ChunkStride == chunkSize - overlap

\* The entry: a text no longer than chunkSize is returned as one chunk.
ChunkEnter ==
    /\ chunkPc = "called"
    /\ IF bodyLen <= chunkSize
       THEN /\ chunks' = <<[charStart |-> 0, charEnd |-> bodyLen]>>
            /\ chunkPc' = "done"
       ELSE /\ chunks' = << >>
            /\ chunkPc' = "loop"
    /\ chunkStart' = 0
    /\ UNCHANGED <<bodyLen, chunkSize, overlap>>

\* One turn of the loop: append text[start:end] and move start.
ChunkAppend ==
    /\ chunkPc = "loop"
    /\ chunkStart < bodyLen
    /\ chunkStart >= 0
    /\ Len(chunks) < ChunkCap
    /\ LET end == IF chunkStart + chunkSize > bodyLen
                  THEN bodyLen ELSE chunkStart + chunkSize
       IN  chunks' = Append(chunks, [charStart |-> chunkStart, charEnd |-> end])
    /\ chunkStart' = chunkStart + ChunkStride
    /\ UNCHANGED <<bodyLen, chunkSize, overlap, chunkPc>>

\* A turn of the loop with start below 0: text[start:end] panics.
ChunkPanic ==
    /\ chunkPc = "loop"
    /\ chunkStart < 0
    /\ chunkPc' = "panic"
    /\ UNCHANGED <<bodyLen, chunkSize, overlap, chunkStart, chunks>>

\* start has reached len(text): return chunks.
ChunkReturn ==
    /\ chunkPc = "loop"
    /\ chunkStart >= bodyLen
    /\ chunkPc' = "done"
    /\ UNCHANGED <<bodyLen, chunkSize, overlap, chunkStart, chunks>>

ChunkIdle ==
    /\ bodyLen = 0
    /\ chunkSize = 1
    /\ overlap = 0
    /\ chunkStart = 0
    /\ chunks = << >>
    /\ chunkPc = "idle"

(***************************************************************************)
(* ImportModal: the component as a whole, with several uploads.            *)
(*                                                                         *)
(* The component stays mounted while it is closed (it renders null), so    *)
(* its requests, its intervals and its timeouts outlive a close.  A file   *)
(* chosen through the input goes through handleFileInput, offered only     *)
(* while isUploading is false; a file dropped goes through handleDrop,     *)
(* which does not look at isUploading.  Every await is a point where the   *)
(* other events take their steps: the upload request and each status       *)
(* request are sent, answered by the server and handled by the client in   *)
(* three steps.  A job is followed by its status, the sections its         *)
(* goroutine has consumed, whether a memory has been created that is yet   *)
(* to be added to the job, and the number of memories recorded; a progress *)
(* message is held by its kind.                                            *)
(***************************************************************************)

\* Bounds of the model: the files handed to the modal, the sections of a
\* file, and the setTimeout callbacks pending at a time.
MaxUploads == 2
MaxFileSections == 1
MaxTimeouts == 2

Uploads == 1..MaxUploads

\* len(sections) of a file ParseFile accepts.
FileSectionCounts == 1..MaxFileSections

VARIABLES
    modalOpen,         \* the isOpen prop
    isUploading,       \* isUploading state
    uploadProgress,    \* uploadProgress state: "" or the kind of the message
    modalJobStatus,    \* jobStatus state: NoModalStatus is null
    importedMemories,  \* importedMemories state, by its length
    intervalRef,       \* pollingIntervalRef.current: 0 is null
    timers,            \* uploads whose setInterval timer is live
    request,           \* per upload: its startUploadJob call, at both ends
    closureLen,        \* per upload: importedMemories.length in its closure
    statusPolls,       \* status requests and their answers in flight (a bag)
    serverJob,         \* per upload: its job on the server
    closeTimeouts,     \* pending setTimeout(onClose, 1500) callbacks
    stopped            \* uploads whose polling has been told to stop (history)

modalVars == <<modalOpen, isUploading, uploadProgress, modalJobStatus,
               importedMemories, intervalRef, timers, request, closureLen,
               statusPolls, serverJob, closeTimeouts, stopped>>

NoModalStatus == [job |-> 0]

NoServerJob == [status |-> "none", total |-> 0, consumed |-> 0, created |-> FALSE, memories |-> 0]

\* A startUploadJob call: what has become of the promise on the client, and
\* where the request stands on the way to, in or from UploadMemoryFile.
NoRequest == [client |-> "none", server |-> "none"]

\* The uploads the modal has been handed so far; the next one is new.
Started == {u \in Uploads : request[u] # NoRequest}
NextUpload == Cardinality(Started) + 1

\* A status request for the job of upload u, and the answer to one.
StatusRequest(u) == [job |-> u, answer |-> NoModalStatus]
StatusAnswer(u, job) == [job |-> u, answer |-> [job |-> u, status |-> job.status, memories |-> job.memories]]

StatusPollsInFlight(u) == {p \in BagToSet(statusPolls) : p.job = u}

\* if (pollingIntervalRef.current) { clearInterval(...); ... = null }
ClearedTimers == timers \ {intervalRef}

\* The effect on isOpen, for isOpen false.
CloseEffect ==
    /\ timers' = ClearedTimers
    /\ intervalRef' = 0
    /\ modalJobStatus' = NoModalStatus
    /\ importedMemories' = 0
    /\ uploadProgress' = ""

\* The parent sets isOpen; the effect does nothing for isOpen true.
ModalOpen ==
    /\ ~modalOpen
    /\ modalOpen' = TRUE
    /\ UNCHANGED <<isUploading, uploadProgress, modalJobStatus,
                   importedMemories, intervalRef, timers, request, closureLen,
                   statusPolls, serverJob, closeTimeouts, stopped>>

\* onClose from the close button or the backdrop.
ModalClose ==
    /\ modalOpen
    /\ modalOpen' = FALSE
    /\ CloseEffect
    /\ UNCHANGED <<isUploading, request, closureLen, statusPolls, serverJob,
                   closeTimeouts, stopped>>

\* handleFileUpload up to its await, for a file that passes the validation
\* (a file that fails it changes nothing).  pollJobStatus of this render is
\* what the interval will call: it holds the importedMemories of this render.
handleFileUpload(u) ==
    /\ u = NextUpload
    /\ isUploading' = TRUE
    /\ uploadProgress' = "uploading"
    /\ importedMemories' = 0
    /\ request' = [request EXCEPT ![u] = [client |-> "awaiting", server |-> "sent"]]
    /\ closureLen' = [closureLen EXCEPT ![u] = importedMemories]
    /\ UNCHANGED <<modalOpen, modalJobStatus, intervalRef, timers, statusPolls,
                   serverJob, closeTimeouts, stopped>>

\* The file input, disabled while isUploading.
handleFileInput(u) ==
    /\ modalOpen
    /\ ~isUploading
    /\ handleFileUpload(u)

\* The drop zone.
handleDrop(u) ==
    /\ modalOpen
    /\ handleFileUpload(u)

\* UploadMemoryFile on the server, steps 5 and 6: the job of the n sections
\* of the file is created and its goroutine started, whatever has become of
\* the client's call meanwhile.
ServerCreateJob(u, n) ==
    /\ request[u].server = "sent"
    /\ request' = [request EXCEPT ![u].server = "handling"]
    /\ serverJob' = [serverJob EXCEPT ![u] = [status |-> JobStatusPending, total |-> n, consumed |-> 0, created |-> FALSE, memories |-> 0]]
    /\ UNCHANGED <<modalOpen, isUploading, uploadProgress, modalJobStatus,
                   importedMemories, intervalRef, timers, closureLen,
                   statusPolls, closeTimeouts, stopped>>

\* Step 7: the 202 response is written and on its way to the client; it is
\* dropped when the client's call has been rejected already.
ServerRespond(u) ==
    /\ request[u].server = "handling"
    /\ request' = [request EXCEPT ![u].server = IF request[u].client = "rejected" THEN "closed" ELSE "answered"]
    /\ UNCHANGED <<modalOpen, isUploading, uploadProgress, modalJobStatus,
                   importedMemories, intervalRef, timers, closureLen,
                   statusPolls, serverJob, closeTimeouts, stopped>>

\* startUploadJob resolves: the rest of the try block sets the interval and
\* polls at once.
UploadAccepted(u) ==
    /\ request[u] = [client |-> "awaiting", server |-> "answered"]
    /\ request' = [request EXCEPT ![u] = [client |-> "accepted", server |-> "closed"]]
    /\ uploadProgress' = "processing file"
    /\ timers' = timers \cup {u}
    /\ intervalRef' = u
    /\ statusPolls' = statusPolls (+) SetToBag({StatusRequest(u)})
    /\ UNCHANGED <<modalOpen, isUploading, modalJobStatus, importedMemories,
                   closureLen, serverJob, closeTimeouts, stopped>>

\* startUploadJob rejects, the server having refused the file, the call
\* having timed out or the response being lost: the catch block of
\* handleFileUpload.  A request still on its way may reach the handler yet.
UploadRejected(u) ==
    /\ request[u].client = "awaiting"
    /\ request' = [request EXCEPT ![u] = [client |-> "rejected", server |-> IF @.server = "answered" THEN "closed" ELSE @.server]]
    /\ isUploading' = FALSE
    /\ uploadProgress' = ""
    /\ UNCHANGED <<modalOpen, modalJobStatus, importedMemories, intervalRef,
                   timers, closureLen, statusPolls, serverJob, closeTimeouts,
                   stopped>>

\* processUploadJob on the server, one step for each call it makes:
\* processing, the memory of one section created, that memory added to the
\* job, one section skipped for its creation failing, completed.
ServerStep(u) ==
    /\ \/ /\ serverJob[u].status = JobStatusPending
          /\ serverJob' = [serverJob EXCEPT ![u].status = JobStatusProcessing]
       \/ /\ serverJob[u].status = JobStatusProcessing
          /\ ~serverJob[u].created
          /\ serverJob[u].consumed < serverJob[u].total
          /\ serverJob' = [serverJob EXCEPT ![u].consumed = @ + 1, ![u].created = TRUE]
       \/ /\ serverJob[u].status = JobStatusProcessing
          /\ serverJob[u].created
          /\ serverJob' = [serverJob EXCEPT ![u].created = FALSE, ![u].memories = @ + 1]
       \/ /\ serverJob[u].status = JobStatusProcessing
          /\ ~serverJob[u].created
          /\ serverJob[u].consumed < serverJob[u].total
          /\ serverJob' = [serverJob EXCEPT ![u].consumed = @ + 1]
       \/ /\ serverJob[u].status = JobStatusProcessing
          /\ ~serverJob[u].created
          /\ serverJob[u].consumed = serverJob[u].total
          /\ serverJob' = [serverJob EXCEPT ![u].status = JobStatusCompleted]
    /\ UNCHANGED <<modalOpen, isUploading, uploadProgress, modalJobStatus,
                   importedMemories, intervalRef, timers, request, closureLen,
                   statusPolls, closeTimeouts, stopped>>

\* The interval of upload u fires: pollJobStatus sends a status request.
\* A tick is followed while fewer than MaxInFlight requests are in flight.
IntervalTick(u) ==
    /\ u \in timers
    /\ BagCardinality(statusPolls) < MaxInFlight
    /\ statusPolls' = statusPolls (+) SetToBag({StatusRequest(u)})
    /\ UNCHANGED <<modalOpen, isUploading, uploadProgress, modalJobStatus,
                   importedMemories, intervalRef, timers, request, closureLen,
                   serverJob, closeTimeouts, stopped>>

\* GetUploadJobStatus on the server answers a status request.
ServerAnswer(u) ==
    /\ BagIn(StatusRequest(u), statusPolls)
    /\ statusPolls' = (statusPolls (-) SetToBag({StatusRequest(u)}))
                        (+) SetToBag({StatusAnswer(u, serverJob[u])})
    /\ UNCHANGED <<modalOpen, isUploading, uploadProgress, modalJobStatus,
                   importedMemories, intervalRef, timers, request, closureLen,
                   serverJob, closeTimeouts, stopped>>

\* getUploadJobStatus resolves: the rest of the try block of pollJobStatus.
pollJobStatus(u) ==
    \E p \in StatusPollsInFlight(u) :
        LET status == p.answer IN
        /\ status # NoModalStatus
        /\ status.status = JobStatusCompleted => closeTimeouts < MaxTimeouts
        /\ statusPolls' = statusPolls (-) SetToBag({p})
        /\ modalJobStatus' = status
        /\ importedMemories' = IF status.memories > closureLen[u] THEN status.memories ELSE importedMemories
        /\ IF status.status = JobStatusProcessing
           THEN /\ uploadProgress' = "processing"
                /\ UNCHANGED <<timers, intervalRef, closeTimeouts, stopped, isUploading>>
           ELSE IF status.status = JobStatusCompleted
           THEN /\ uploadProgress' = "completed"
                /\ timers' = ClearedTimers
                /\ intervalRef' = 0
                /\ closeTimeouts' = closeTimeouts + 1
                /\ stopped' = stopped \cup {u}
                /\ UNCHANGED isUploading
           ELSE IF status.status = JobStatusFailed
           THEN /\ uploadProgress' = "failed"
                /\ timers' = ClearedTimers
                /\ intervalRef' = 0
                /\ isUploading' = FALSE
                /\ stopped' = stopped \cup {u}
                /\ UNCHANGED closeTimeouts
           ELSE UNCHANGED <<uploadProgress, timers, intervalRef, closeTimeouts, stopped, isUploading>>
        /\ UNCHANGED <<modalOpen, request, closureLen, serverJob>>

\* getUploadJobStatus rejects, the request or its answer being lost: the
\* catch block of pollJobStatus.
pollJobStatusCatch(u) ==
    \E p \in StatusPollsInFlight(u) :
        /\ statusPolls' = statusPolls (-) SetToBag({p})
        /\ timers' = ClearedTimers
        /\ intervalRef' = 0
        /\ isUploading' = FALSE
        /\ stopped' = stopped \cup {u}
        /\ UNCHANGED <<modalOpen, uploadProgress, modalJobStatus,
                       importedMemories, request, closureLen, serverJob,
                       closeTimeouts>>

\* A setTimeout callback runs onClose: the parent sets isOpen false, and the
\* effect runs if that changes isOpen.
CloseTimeout ==
    /\ closeTimeouts > 0
    /\ closeTimeouts' = closeTimeouts - 1
    /\ IF modalOpen
       THEN modalOpen' = FALSE /\ CloseEffect
       ELSE UNCHANGED <<modalOpen, timers, intervalRef, modalJobStatus, importedMemories, uploadProgress>>
    /\ UNCHANGED <<isUploading, request, closureLen, statusPolls, serverJob, stopped>>

ModalIdle ==
    /\ modalOpen = FALSE
    /\ isUploading = FALSE
    /\ uploadProgress = ""
    /\ modalJobStatus = NoModalStatus
    /\ importedMemories = 0
    /\ intervalRef = 0
    /\ timers = {}
    /\ request = [u \in Uploads |-> NoRequest]
    /\ closureLen = [u \in Uploads |-> 0]
    /\ statusPolls = EmptyBag
    /\ serverJob = [u \in Uploads |-> NoServerJob]
    /\ closeTimeouts = 0
    /\ stopped = {}

(***************************************************************************)
(* Specification                                                           *)
(***************************************************************************)

UploadInit ==
    /\ jobs = << >>
    /\ history = [j \in JobIds |-> {}]
    /\ wpc = [j \in JobIds |-> "idle"]
    /\ wi = [j \in JobIds |-> 0]
    /\ attempts = [j \in JobIds |-> << >>]
    /\ resp = [j \in JobIds |-> "none"]
    /\ upload = [j \in JobIds |-> "none"]
    /\ intervals = {}
    /\ pollingIntervalRef = 0
    /\ isOpen = FALSE
    /\ jobStatus = NoStatus
    /\ polls = EmptyBag

Init ==
    UploadInit /\ SearchIdle /\ EmbedIdle /\ TruncateIdle /\ ChunkIdle
    /\ ModalIdle

allVars == <<vars, searchVars, embedVars, truncateVars, chunkVars, modalVars>>

\* What the steps of one part of the model leave alone.
nonUploadVars == <<searchVars, embedVars, truncateVars, chunkVars, modalVars>>
nonSearchVars == <<vars, embedVars, truncateVars, chunkVars, modalVars>>
nonEmbedVars == <<vars, searchVars, truncateVars, chunkVars, modalVars>>
nonTruncateVars == <<vars, searchVars, embedVars, chunkVars, modalVars>>
nonChunkVars == <<vars, searchVars, embedVars, truncateVars, modalVars>>
nonModalVars == <<vars, searchVars, embedVars, truncateVars, chunkVars>>

Next ==
    \/ \E j \in JobIds : startUploadJob(j) /\ UNCHANGED nonUploadVars
    \/ \E j \in JobIds, n \in ParsedSectionCounts : UploadCreate(j, n) /\ UNCHANGED nonUploadVars
    \/ \E j \in JobIds : UploadRespond(j) /\ UNCHANGED nonUploadVars
    \/ \E j \in JobIds : UploadDeliver(j) /\ UNCHANGED nonUploadVars
    \/ \E j \in JobIds : ClientCancelUpload(j) /\ UNCHANGED nonUploadVars
    \/ \E j \in JobIds : Worker(j) /\ UNCHANGED nonUploadVars
    \/ \E j \in JobIds : PollSend(j) /\ UNCHANGED nonUploadVars
    \/ \E j \in JobIds : GetUploadJobStatus(j) /\ UNCHANGED nonUploadVars
    \/ \E j \in JobIds : Poll(j) /\ UNCHANGED nonUploadVars
    \/ \E j \in JobIds : PollFail(j) /\ UNCHANGED nonUploadVars
    \/ ClientClose /\ UNCHANGED nonUploadVars
    \/ ClientOpen /\ UNCHANGED nonUploadVars

Spec == Init /\ [][Next]_allVars

\* The goroutine of a started job is scheduled until it returns.
FairSpec ==
    Spec /\ \A j \in JobIds :
        WF_allVars(Worker(j) /\ UNCHANGED nonUploadVars)

\* Search alone, from a received request to its response, for every request:
\* the request has two content types, so that SearchByUser runs one
\* goroutine for each.

SearchInit ==
    /\ UploadInit
    /\ ModalIdle
    /\ EmbedIdle
    /\ TruncateIdle
    /\ ChunkIdle
    /\ searchRequest \in [limit : Limits, vectorWeight : VectorWeights,
                          minSimilarity : MinSimilarities]
    /\ searchReq = searchRequest
    /\ searchPc = "received"
    /\ similarity \in [Docs -> 0..MaxDocs]
    /\ keywordIndex \in RankedLists
    /\ typesLeft = ContentTypes
    /\ allResults = << >>
    /\ firstError = FALSE
    /\ vectorSearch = Pending
    /\ keywordSearch = Pending
    /\ searchResponse = NoResponse

SearchNext ==
    \/ SearchBegin /\ UNCHANGED nonSearchVars
    \/ \E contentType \in ContentTypes :
            TypeSearchDone(contentType) /\ UNCHANGED nonSearchVars
    \/ \E contentType \in ContentTypes :
            TypeSearchFail(contentType) /\ UNCHANGED nonSearchVars
    \/ VectorJoin /\ UNCHANGED nonSearchVars
    \/ KeywordDone /\ UNCHANGED nonSearchVars
    \/ KeywordFail /\ UNCHANGED nonSearchVars
    \/ Fuse /\ UNCHANGED nonSearchVars
    \/ SearchFail /\ UNCHANGED nonSearchVars

SearchSpec == SearchInit /\ [][SearchNext]_allVars

\* Search over sub-searches that have returned given ranked lists, of at most
\* limit documents each, for every request: the defaults, the fusion and the
\* cut to the limit.
FusionInit ==
    /\ UploadInit
    /\ ModalIdle
    /\ EmbedIdle
    /\ TruncateIdle
    /\ ChunkIdle
    /\ searchRequest \in [limit : Limits, vectorWeight : VectorWeights,
                          minSimilarity : MinSimilarities]
    /\ searchReq = searchRequest
    /\ searchPc = "received"
    /\ similarity = [doc \in Docs |-> 0]
    /\ keywordIndex = << >>
    /\ typesLeft = {}
    /\ allResults = << >>
    /\ firstError = FALSE
    /\ vectorSearch \in {Succeeded(hits) : hits \in RankedLists}
    /\ keywordSearch \in {Succeeded(hits) : hits \in RankedLists}
    /\ Len(vectorSearch.hits) <= ApplyDefaults(searchRequest).limit
    /\ Len(keywordSearch.hits) <= ApplyDefaults(searchRequest).limit
    /\ searchResponse = NoResponse

FusionNext ==
    \/ SearchBegin /\ UNCHANGED nonSearchVars
    \/ Fuse /\ UNCHANGED nonSearchVars

FusionSpec == FusionInit /\ [][FusionNext]_allVars

\* One embedding call of either entry point, for every number of texts.
EmbedInit ==
    /\ UploadInit
    /\ ModalIdle
    /\ SearchIdle
    /\ TruncateIdle
    /\ ChunkIdle
    /\ embedPath \in {"EmbedBatch", "AddBatch"}
    /\ embedTexts \in 0..MaxTexts
    /\ embedOffset = 0
    /\ embedPc = "running"
    /\ embedCallCount = 0
    /\ embedLargestCall = 0
    /\ embedded = 0

EmbedNext ==
    \/ EmbedBatchCall /\ UNCHANGED nonEmbedVars
    \/ EmbedBatchCallFail /\ UNCHANGED nonEmbedVars
    \/ AddBatchStep /\ UNCHANGED nonEmbedVars
    \/ AddBatchStepFail /\ UNCHANGED nonEmbedVars
    \/ AddDocumentsFail /\ UNCHANGED nonEmbedVars
    \/ EmbedReturn /\ UNCHANGED nonEmbedVars

EmbedSpec == EmbedInit /\ [][EmbedNext]_allVars

\* The cleaning of one text, for every length of the text.
TruncateInit ==
    /\ UploadInit
    /\ ModalIdle
    /\ SearchIdle
    /\ EmbedIdle
    /\ ChunkIdle
    /\ originalLen \in 0..MaxTextLen
    /\ cleanedLen = 0
    /\ bucket = ""
    /\ truncationCount = 0
    /\ cleanPc = "ready"

TruncateNext == CleanText /\ UNCHANGED nonTruncateVars

TruncateSpec == TruncateInit /\ [][TruncateNext]_allVars

\* One call of chunkWithOverlap, for every length, chunk size and overlap.
ChunkInit ==
    /\ UploadInit
    /\ ModalIdle
    /\ SearchIdle
    /\ EmbedIdle
    /\ TruncateIdle
    /\ bodyLen \in 0..MaxBody
    /\ chunkSize \in 1..MaxBody
    /\ overlap \in 0..MaxBody
    /\ chunkStart = 0
    /\ chunks = << >>
    /\ chunkPc = "called"

ChunkNext ==
    \/ ChunkEnter /\ UNCHANGED nonChunkVars
    \/ ChunkAppend /\ UNCHANGED nonChunkVars
    \/ ChunkPanic /\ UNCHANGED nonChunkVars
    \/ ChunkReturn /\ UNCHANGED nonChunkVars

ChunkSpec == ChunkInit /\ [][ChunkNext]_allVars

\* ImportModal alone: it is mounted closed, and the parent, the user, the
\* network and the server take their steps in any order.
ModalInit ==
    /\ UploadInit
    /\ SearchIdle
    /\ EmbedIdle
    /\ TruncateIdle
    /\ ChunkIdle
    /\ ModalIdle

ModalNext ==
    \/ ModalOpen /\ UNCHANGED nonModalVars
    \/ ModalClose /\ UNCHANGED nonModalVars
    \/ \E u \in Uploads : handleFileInput(u) /\ UNCHANGED nonModalVars
    \/ \E u \in Uploads : handleDrop(u) /\ UNCHANGED nonModalVars
    \/ \E u \in Uploads, n \in FileSectionCounts : ServerCreateJob(u, n) /\ UNCHANGED nonModalVars
    \/ \E u \in Uploads : ServerRespond(u) /\ UNCHANGED nonModalVars
    \/ \E u \in Uploads : UploadAccepted(u) /\ UNCHANGED nonModalVars
    \/ \E u \in Uploads : UploadRejected(u) /\ UNCHANGED nonModalVars
    \/ \E u \in Uploads : ServerStep(u) /\ UNCHANGED nonModalVars
    \/ \E u \in Uploads : IntervalTick(u) /\ UNCHANGED nonModalVars
    \/ \E u \in Uploads : ServerAnswer(u) /\ UNCHANGED nonModalVars
    \/ \E u \in Uploads : pollJobStatus(u) /\ UNCHANGED nonModalVars
    \/ \E u \in Uploads : pollJobStatusCatch(u) /\ UNCHANGED nonModalVars
    \/ CloseTimeout /\ UNCHANGED nonModalVars

ModalSpec == ModalInit /\ [][ModalNext]_allVars

(***************************************************************************)
(* Helpers of the properties                                               *)
(***************************************************************************)

IsPrefix(s, t) == Len(s) <= Len(t) /\ SubSeq(t, 1, Len(s)) = s

\* The sections of job j attempted so far, in the order of the attempts.
AttemptedSections(j) == [k \in 1..Len(attempts[j]) |-> attempts[j][k].section]

IsOk(a) == a.ok

\* The memories of the attempts of job j that succeeded, in that order.
CreatedMemories(j) ==
    LET ok == SelectSeq(attempts[j], IsOk)
    IN  [k \in 1..Len(ok) |-> Memory(j, ok[k].section)]

NoAttemptFailed(j) == \A k \in 1..Len(attempts[j]) : attempts[j][k].ok

Polled == jobStatus # NoStatus

\* The progress value is n on the 0-100 scale.
IsPercent(progress, n) == progress.num = n * progress.den

(***************************************************************************)
(* Properties                                                              *)
(***************************************************************************)

StatusSteps ==
    {<<JobStatusPending, JobStatusProcessing>>,
     <<JobStatusProcessing, JobStatusCompleted>>,
     <<JobStatusProcessing, JobStatusFailed>>}

\* C1: a job starts pending and every step either leaves its status alone or
\* moves it pending -> processing, processing -> completed or processing ->
\* failed; no job leaves the registry.
C1_StatusTransitions ==
    [][/\ DOMAIN jobs \subseteq DOMAIN jobs'
       /\ \A j \in DOMAIN jobs' :
            IF j \in DOMAIN jobs
            THEN \/ jobs'[j].status = jobs[j].status
                 \/ <<jobs[j].status, jobs'[j].status>> \in StatusSteps
            ELSE jobs'[j].status = JobStatusPending]_vars

\* A job went pending -> processing -> completed.
C1_Witness ==
    \E j \in DOMAIN jobs :
        /\ jobs[j].status = JobStatusCompleted
        /\ \E r \in history[j] : r.status = JobStatusPending
        /\ \E r \in history[j] : r.status = JobStatusProcessing

\* C2: once a job's status is completed or failed, no step changes its record.
C2_TerminalImmutable ==
    [][\A j \in DOMAIN jobs :
         jobs[j].status \in Terminal =>
            j \in DOMAIN jobs' /\ jobs'[j] = jobs[j]]_vars

\* A completed job that has been polled after its completion.
C2_Witness ==
    /\ Polled
    /\ jobStatus.status = JobStatusCompleted
    /\ Len(jobStatus.memories) >= 1
    /\ jobs[jobStatus.job_id].status = JobStatusCompleted

\* C3: processedItems of every job never decreases in a step and is at most
\* totalItems before and after every step.
C3_ProcessedItemsBounded ==
    [][/\ \A j \in DOMAIN jobs :
            /\ jobs[j].processedItems <= jobs[j].totalItems
            /\ j \in DOMAIN jobs'
            /\ jobs'[j].processedItems >= jobs[j].processedItems
       /\ \A j \in DOMAIN jobs' :
            jobs'[j].processedItems <= jobs'[j].totalItems]_vars

\* Every section of a job of two or more sections has been counted.
C3_Witness ==
    \E j \in DOMAIN jobs :
        /\ jobs[j].totalItems >= 2
        /\ jobs[j].processedItems = jobs[j].totalItems

\* The answers in flight, and those the step under way puts in flight.
Answered == {p \in BagToSet(polls) : p.answer # NoStatus}
NewAnswers ==
    {p \in BagToSet(polls') :
        p.answer # NoStatus /\ CopiesIn(p, polls') > CopiesIn(p, polls)}

\* The created memories of job j that AddMemoryToJob has been called with:
\* all of them, but the last while the goroutine is between the two calls.
AddedMemories(j) ==
    IF wpc[j] = "add"
    THEN SubSeq(CreatedMemories(j), 1, Len(CreatedMemories(j)) - 1)
    ELSE CreatedMemories(j)

\* The sections were attempted in the order given, the results are the
\* created memories in that order (the one just created is added next), and
\* a list polled, handled or still in flight, is a prefix of them.
ResultsInSectionOrder ==
    /\ \A j \in DOMAIN jobs :
        /\ AttemptedSections(j) = [k \in 1..Len(attempts[j]) |-> k]
        /\ jobs[j].results = AddedMemories(j)
    /\ Polled => IsPrefix(jobStatus.memories, jobs[jobStatus.job_id].results)
    /\ \A p \in Answered :
          IsPrefix(p.answer.memories, jobs[p.job].results)

\* C4: sections are processed in the order given; results only grows by
\* appending (each value is a prefix of the next, and each list the handler
\* answers with extends every list it has answered with before for the same
\* job) and lists the memories in the order of their sections.
C4_ResultsAppendOnly ==
    [][/\ ResultsInSectionOrder
       /\ ResultsInSectionOrder'
       /\ \A j \in DOMAIN jobs : IsPrefix(jobs[j].results, jobs'[j].results)
       /\ \A p \in NewAnswers :
            /\ \A q \in Answered :
                  q.job = p.job => IsPrefix(q.answer.memories, p.answer.memories)
            /\ (Polled /\ jobStatus.job_id = p.job)
                  => IsPrefix(jobStatus.memories, p.answer.memories)]_vars

\* A poll saw one memory and the job has since grown to two.
C4_Witness ==
    /\ Polled
    /\ Len(jobStatus.memories) = 1
    /\ Len(jobs[jobStatus.job_id].results) = 2

\* C5: a failed section is skipped: the attempts made are sections 1, 2, ...
\* once each, the job never becomes failed, and when the goroutine has
\* returned every section has been attempted and the job is completed.
C5_FailedSectionSkipped ==
    \A j \in DOMAIN jobs :
        /\ Len(attempts[j]) <= jobs[j].totalItems
        /\ AttemptedSections(j) = [k \in 1..Len(attempts[j]) |-> k]
        /\ jobs[j].status # JobStatusFailed
        /\ wpc[j] = "done" =>
            /\ Len(attempts[j]) = jobs[j].totalItems
            /\ jobs[j].status = JobStatusCompleted

\* The first section failed, the second was created, the job is completed.
C5_Witness ==
    \E j \in DOMAIN jobs :
        /\ Len(attempts[j]) = 2
        /\ ~attempts[j][1].ok
        /\ attempts[j][2].ok
        /\ jobs[j].status = JobStatusCompleted

\* C6: under FairSpec every job whose goroutine was started eventually is
\* completed or failed, whatever the client does.
C6_JobTerminates ==
    \A j \in JobIds :
        (wpc[j] # "idle") ~> (j \in DOMAIN jobs /\ jobs[j].status \in Terminal)

\* A job completed although its upload request was cancelled, it was never
\* polled and the modal is closed.
C6_Witness ==
    \E j \in DOMAIN jobs :
        /\ resp[j] = "cancelled"
        /\ ~isOpen
        /\ jobs[j].totalItems >= 1
        /\ jobs[j].status = JobStatusCompleted

\* What a poll of a completed job none of whose sections failed must show.
CompletedPollComplete(status) ==
    /\ status.status = JobStatusCompleted
    /\ status.processed_items = status.total_items
    /\ status.memories = [k \in 1..status.total_items |-> Memory(status.job_id, k)]

PolledCompletedShowsAll ==
    (Polled /\ jobStatus.status = JobStatusCompleted
            /\ NoAttemptFailed(jobStatus.job_id))
        => CompletedPollComplete(jobStatus)

\* C7: for a job none of whose sections failed, a poll the handler answers
\* once the job is completed reports completed, processed_items = total_items
\* and exactly the memories of sections 1..total_items in that order, and so
\* does every snapshot the client has handled that says completed.
C7_CompletedPollComplete ==
    [][/\ PolledCompletedShowsAll
       /\ PolledCompletedShowsAll'
       /\ \A p \in NewAnswers :
            (/\ jobs[p.job].status = JobStatusCompleted
             /\ NoAttemptFailed(p.job))
                => CompletedPollComplete(p.answer)]_vars

\* A completed two-section job, both created, has been polled.
C7_Witness ==
    /\ Polled
    /\ jobStatus.status = JobStatusCompleted
    /\ NoAttemptFailed(jobStatus.job_id)
    /\ jobStatus.total_items >= 2

SearchReturned == searchPc = "done" /\ searchResponse.kind = "ok"

\* The lists handed to the fusion.
VectorList == HitsOf(vectorSearch)
KeywordList == HitsOf(keywordSearch)

\* The 1-indexed rank of doc in a result list, 0 when it is not in it.
RankIn(results, doc) ==
    IF doc \in Range(results)
    THEN CHOOSE i \in DOMAIN results : results[i] = doc
    ELSE 0

\* weight / (60 + rank), nothing for a document that is not in the list.
Share(weight, rank) ==
    IF rank = 0 THEN 0 ELSE (weight * 10 * ScoreUnit) \div (rrfK + rank)

\* w / (60 + rv) + (1 - w) / (60 + rk) for the weight w.
WeightedScore(weight, doc) ==
    Share(weight, RankIn(VectorList, doc))
    + Share(10 - weight, RankIn(KeywordList, doc))

ReturnedDocs == Range(DocsOf(searchResponse.results))

\* C11 as claimed: for every requested vectorWeight in [0, 1], 0 and 1
\* included, each returned document carries the score
\* vectorWeight / (60 + rv) + (1 - vectorWeight) / (60 + rk) of its ranks in
\* the two lists, a list it is not in adding nothing.
C11_FusedScore ==
    (SearchReturned /\ searchRequest.vectorWeight \in 0..10) =>
        \A i \in DOMAIN searchResponse.results :
            searchResponse.results[i].score =
                WeightedScore(searchRequest.vectorWeight,
                              searchResponse.results[i].doc)

\* The place of doc in the merge of the two lists: the documents of the
\* vector list in its order, then those the keyword list adds, in its order.
MergeIndex(doc) ==
    IF doc \in Range(VectorList)
    THEN RankIn(VectorList, doc)
    ELSE Len(VectorList) + RankIn(KeywordList, doc)

\* The limit in force: the requested one, the default when none is given.
LimitInForce ==
    IF searchRequest.limit <= 0 THEN DefaultLimit ELSE searchRequest.limit

\* C12 as claimed: the returned list is in descending order of fused score,
\* documents of equal score stand in the order in which they were merged,
\* and the list has at most limit entries.
C12_SortedStableLimited ==
    SearchReturned =>
        /\ Len(searchResponse.results) <= LimitInForce
        /\ \A a, b \in DOMAIN searchResponse.results :
            a < b =>
                \/ searchResponse.results[a].score
                     > searchResponse.results[b].score
                \/ /\ searchResponse.results[a].score
                        = searchResponse.results[b].score
                   /\ MergeIndex(searchResponse.results[a].doc)
                        < MergeIndex(searchResponse.results[b].doc)

\* The vector lists SearchByUser can return for the indexed documents when
\* no goroutine fails, over every completion order of its goroutines.
PossibleVectorLists ==
    LET found == UNION {Range(TypeSearch(similarity, contentType,
                                         searchReq.limit)) :
                            contentType \in ContentTypes}
    IN  {DocsOf(Truncate(seq, searchReq.limit)) :
            seq \in {o \in Orderings(found) : ScoreDescending(o)}}

\* The rankings Search can return for the indexed documents and the request
\* when no sub-search fails.
PossibleRankings ==
    UNION {{DocsOf(Truncate(combined, searchReq.limit)) :
                combined \in reciprocalRankFusion(
                                hits,
                                Truncate(keywordIndex, searchReq.limit),
                                searchReq.vectorWeight,
                                searchReq.minSimilarity)} :
            hits \in PossibleVectorLists}

\* C13 as claimed: for given indexes and a given request the ranking Search
\* returns is the one every other execution returns, whichever sub-search
\* or per-type search completed first.
C13_RankingDeterministic ==
    (/\ SearchReturned
     /\ vectorSearch.status = "ok"
     /\ keywordSearch.status = "ok") =>
        PossibleRankings = {DocsOf(searchResponse.results)}

\* The documents of the two lists.
ListedDocs == Range(VectorList) \cup Range(KeywordList)

Smaller(a, b) == IF a < b THEN a ELSE b

\* C14 as claimed: no returned document has a fused score below the
\* requested minSimilarity; with minSimilarity 0 no document is filtered
\* out; with minSimilarity 1.01 the result is the empty list and no error.
C14_MinSimilarity ==
    (searchPc = "done" /\ ~BothFailed(vectorSearch, keywordSearch)) =>
        /\ searchResponse.kind = "ok"
        /\ \A i \in DOMAIN searchResponse.results :
            searchResponse.results[i].score
                >= searchRequest.minSimilarity * ScoreUnit
        /\ searchRequest.minSimilarity = 0 =>
            Len(searchResponse.results)
                = Smaller(Cardinality(ListedDocs), LimitInForce)
        /\ searchRequest.minSimilarity = 101 =>
            searchResponse.results = << >>

\* C15: a returned document is tagged vector exactly when it is in the
\* vector list alone, keyword exactly when it is in the keyword list alone,
\* and hybrid exactly when it is in both.
C15_MatchType ==
    SearchReturned =>
        \A i \in DOMAIN searchResponse.results :
            LET entry == searchResponse.results[i]
                inVector == entry.doc \in Range(VectorList)
                inKeyword == entry.doc \in Range(KeywordList)
            IN  /\ entry.matchType = "vector" <=> (inVector /\ ~inKeyword)
                /\ entry.matchType = "keyword" <=> (inKeyword /\ ~inVector)
                /\ entry.matchType = "hybrid" <=> (inVector /\ inKeyword)

\* A returned list holds a document found by both searches next to one found
\* by one of them.
C15_Witness ==
    /\ SearchReturned
    /\ \E a, b \in DOMAIN searchResponse.results :
        /\ searchResponse.results[a].matchType = "hybrid"
        /\ searchResponse.results[b].matchType \in {"vector", "keyword"}

\* In the list results, a stands at or above b: before it, or with its score.
AtOrAbove(results, a, b) ==
    LET ra == RankIn(DocsOf(results), a)
        rb == RankIn(DocsOf(results), b)
    IN  ra < rb \/ results[ra].score = results[rb].score

\* The documents of the returned list found by one search alone.
VectorOnly == {doc \in ReturnedDocs : doc \notin Range(KeywordList)}
KeywordOnly == {doc \in ReturnedDocs : doc \notin Range(VectorList)}

\* C16: when a document of the vector list alone stands at or above one of
\* the keyword list alone in the list fused with weight w, it does so in
\* every list fused from the same two lists with a weight from w to 1.
C16_WeightMonotonic ==
    (SearchReturned /\ searchReq.vectorWeight \in 0..10) =>
        \A a \in VectorOnly, b \in KeywordOnly :
            AtOrAbove(searchResponse.results, a, b) =>
                \A higher \in searchReq.vectorWeight..10 :
                    \A fused \in reciprocalRankFusion(
                                    VectorList, KeywordList, higher,
                                    searchReq.minSimilarity) :
                        {a, b} \subseteq Range(DocsOf(fused)) =>
                            AtOrAbove(fused, a, b)

\* At weight 0.5 a vector-only and a keyword-only document of equal rank are
\* both returned, with the same score; higher weights remain to be compared.
C16_Witness ==
    /\ SearchReturned
    /\ searchReq.vectorWeight = 5
    /\ \E a \in VectorOnly, b \in KeywordOnly :
        /\ RankIn(VectorList, a) = RankIn(KeywordList, b)
        /\ AtOrAbove(searchResponse.results, a, b)
        /\ AtOrAbove(searchResponse.results, b, a)

\* C17: with an empty keyword list, vectorWeight 1.0 and minSimilarity 0 the
\* fused list is the vector list: the same documents in the same order.
C17_VectorOnlyIdentity ==
    (/\ SearchReturned
     /\ KeywordList = << >>
     /\ searchReq.vectorWeight = 10
     /\ searchReq.minSimilarity = 0) =>
        DocsOf(searchResponse.results) = VectorList

\* Such a fusion of a vector list of two documents has returned.
C17_Witness ==
    /\ SearchReturned
    /\ KeywordList = << >>
    /\ searchReq.vectorWeight = 10
    /\ searchReq.minSimilarity = 0
    /\ Len(VectorList) >= 2
    /\ Len(searchResponse.results) >= 2

\* C19 as claimed: a request whose vectorWeight is below 0 or above 1 gets
\* past the entry of Search only as an error response: nothing is searched
\* or fused with such a weight.
C19_WeightValidated ==
    (searchRequest.vectorWeight \notin 0..10 /\ searchPc # "received") =>
        /\ searchPc = "done"
        /\ searchResponse.kind = "error"

(***************************************************************************)
(* Batched embedding: properties                                           *)
(***************************************************************************)

\* ceil(count / size)
CeilDiv(count, size) == (count + size - 1) \div size

\* C20 as claimed: embedding one text or more, through EmbedBatch or through
\* the batch indexing path AddBatch, takes exactly ceil(N / B) calls of at
\* most B texts each, B being the batch size, and not one call per text.
C20_CallsPerBatch ==
    (embedPc = "done" /\ embedTexts >= 1) =>
        /\ embedCallCount = CeilDiv(embedTexts, API_BATCH_SIZE)
        /\ embedLargestCall <= API_BATCH_SIZE

\* C21 as claimed: when the call for one batch fails, EmbedBatch still
\* returns the vectors of every batch whose call succeeded (those before the
\* failed one), and only the texts of the failed batch have no vector.
C21_PartialResults ==
    (embedPc = "failed" /\ embedPath = "EmbedBatch") =>
        embedded = embedOffset

(***************************************************************************)
(* Truncation and chunking: properties                                     *)
(***************************************************************************)

\* The share of the text that truncation loses, against a percentage.
LossUnder(percent) == 100 * (originalLen - MaxEmbedChars) < percent * originalLen
LossOver(percent) == 100 * (originalLen - MaxEmbedChars) > percent * originalLen

\* C22 as claimed: a text longer than the maximum is cut to exactly the
\* maximum and kept, and its truncation falls in exactly one bucket: minor
\* for a loss below 10%, moderate from 10% up to 25%, significant from 25%
\* up to 50%, severe above 50%.
C22_TruncationBuckets ==
    (cleanPc = "cleaned" /\ originalLen > MaxEmbedChars) =>
        /\ cleanedLen = MaxEmbedChars
        /\ bucket \in {"minor", "moderate", "significant", "severe"}
        /\ bucket = "minor" <=> LossUnder(10)
        /\ bucket = "moderate" <=> (~LossUnder(10) /\ LossUnder(25))
        /\ bucket = "significant" <=> (~LossUnder(25) /\ LossUnder(50))
        /\ bucket = "severe" <=> LossOver(50)

\* The characters of the text that some chunk holds.
Covered == UNION {chunks[i].charStart .. (chunks[i].charEnd - 1) : i \in DOMAIN chunks}

\* C23: no chunk reaches outside the text; the chunks returned cover every
\* character of the text and nothing else; a text no longer than chunkSize is
\* returned as the single chunk [0, len(text)), the chunk of ordinal 0.
C23_ChunksCover ==
    /\ \A i \in DOMAIN chunks :
          /\ 0 <= chunks[i].charStart
          /\ chunks[i].charStart <= chunks[i].charEnd
          /\ chunks[i].charEnd <= bodyLen
    /\ chunkPc = "done" =>
          /\ Covered = 0 .. (bodyLen - 1)
          /\ bodyLen <= chunkSize =>
                chunks = <<[charStart |-> 0, charEnd |-> bodyLen]>>

\* A text split into three chunks or more that overlap has been returned.
C23_Witness ==
    /\ chunkPc = "done"
    /\ Len(chunks) >= 3
    /\ overlap > 0
    /\ bodyLen > chunkSize

\* C24 as claimed: two consecutive chunks share exactly overlap characters,
\* and no chunk lies entirely inside the chunk before it.
C24_ConsecutiveOverlap ==
    chunkPc = "done" =>
        \A i \in 1 .. (Len(chunks) - 1) :
            /\ chunks[i].charEnd - chunks[i + 1].charStart = overlap
            /\ chunks[i + 1].charEnd > chunks[i].charEnd

\* C30 as claimed: chunkWithOverlap terminates with a finite list whatever
\* the text, for every chunkSize >= 1 and overlap >= 0, overlap >= chunkSize
\* included: no slice panics, and every turn of the loop moves start forward,
\* so that start reaches len(text).
C30_ChunkingTerminates ==
    /\ [](chunkPc # "panic")
    /\ [][ChunkAppend => chunkStart' > chunkStart]_allVars

(***************************************************************************)
(* Upload jobs: the progress of a completed job                            *)
(***************************************************************************)

\* C25 as claimed: a completed job has processedItems = totalItems, and the
\* progress a poll shows for it is 100.
C25_CompletedIsFull ==
    /\ \A j \in DOMAIN jobs :
          jobs[j].status = JobStatusCompleted =>
              jobs[j].processedItems = jobs[j].totalItems
    /\ (Polled /\ jobStatus.status = JobStatusCompleted) =>
          IsPercent(jobStatus.progress, 100)

\* C25, amended: a completed job has attempted every section, and its
\* processedItems is the number of sections whose creation succeeded; it
\* equals totalItems, and the progress polled is 100, exactly when no
\* creation failed.
C25_CompletedCountsCreated ==
    /\ \A j \in DOMAIN jobs :
          jobs[j].status = JobStatusCompleted =>
              /\ Len(attempts[j]) = jobs[j].totalItems
              /\ jobs[j].processedItems = Len(CreatedMemories(j))
              /\ jobs[j].processedItems = jobs[j].totalItems <=> NoAttemptFailed(j)
    /\ (Polled /\ jobStatus.status = JobStatusCompleted) =>
          /\ jobStatus.processed_items = Len(CreatedMemories(jobStatus.job_id))
          /\ IsPercent(jobStatus.progress, 100) <=> NoAttemptFailed(jobStatus.job_id)

\* A poll shows a completed job of two sections, one of them skipped, at 50.
C25_Witness ==
    /\ Polled
    /\ jobStatus.status = JobStatusCompleted
    /\ jobStatus.total_items = 2
    /\ jobStatus.processed_items = 1
    /\ IsPercent(jobStatus.progress, 50)

(***************************************************************************)
(* ImportModal: properties                                                 *)
(***************************************************************************)

\* C26 as claimed: once ImportModal has handled a terminal poll response or
\* a failed poll for a job, the polling interval of that job is cleared and
\* no further status request is issued for it.
C26_PollingStops ==
    /\ [](stopped \cap timers = {})
    /\ [][\A u \in stopped :
            CopiesIn(StatusRequest(u), statusPolls')
                <= CopiesIn(StatusRequest(u), statusPolls)]_allVars

\* C27 as claimed: at most one polling interval is live in every reachable
\* state, and none while the modal is closed.
C27_OneInterval ==
    /\ Cardinality(timers) <= 1
    /\ ~modalOpen => timers = {}

\* C28 as claimed: while the modal is closed after an upload that completed,
\* failed or was abandoned, the upload state is reset: jobStatus null,
\* importedMemories empty, no progress message, isUploading false.
C28_ResetOnClose ==
    (~modalOpen /\ Started # {}) =>
        /\ modalJobStatus = NoModalStatus
        /\ importedMemories = 0
        /\ uploadProgress = ""
        /\ ~isUploading

(***************************************************************************)
(* SearchByUser: the sequential version and the parallel one               *)
(***************************************************************************)

\* contentTypes as the caller passes it.
ContentTypeOrder == <<"memory", "todo">>

PositionIn(results, entry) == CHOOSE i \in DOMAIN results : results[i] = entry

\* sort.Slice by score, best first, on a slice of fewer than 12 entries: an
\* insertion sort, which leaves entries of equal score in the order it found
\* them.
InsertionSort(results) ==
    CHOOSE seq \in Orderings(Range(results)) :
        /\ ScoreDescending(seq)
        /\ \A a, b \in DOMAIN seq :
              (a < b /\ seq[a].score = seq[b].score) =>
                  PositionIn(results, seq[a]) < PositionIn(results, seq[b])

\* The sequential SearchByUser for two content types or more, every r.Search
\* succeeding: the per-type results appended in the order of contentTypes,
\* sorted, cut to limit.
SearchByUserSequential ==
    LET appended == TypeSearch(similarity, ContentTypeOrder[1], searchReq.limit)
                    \o TypeSearch(similarity, ContentTypeOrder[2], searchReq.limit)
    IN  DocsOf(Truncate(InsertionSort(appended), searchReq.limit))

\* C29 as claimed: whatever the order in which the per-type searches finish,
\* the parallel SearchByUser returns the list the sequential version returns
\* when every per-type search succeeded, and an error without results when
\* one of them failed.  The sort of the parallel version is taken as the
\* insertion sort too.
C29_ParallelAsSequential ==
    /\ vectorSearch.status = "failed" => (firstError /\ vectorSearch.hits = << >>)
    /\ vectorSearch.status = "ok" =>
          /\ ~firstError
          /\ vectorSearch.hits = DocsOf(Truncate(InsertionSort(allResults), searchReq.limit))
                => vectorSearch.hits = SearchByUserSequential

====
